---- MODULE Spec2Model ----
(***************************************************************************)
(* Model of the HII OSM rasterization task: src/src/raster_utils.py        *)
(* (Window Tiler, Split Planner, Multiband Compositor) and src/src/task.py *)
(* (Geometry Cleaner, Feature Sharder, Rasterization Fan-out).             *)
(*                                                                         *)
(* Text is modelled as a sequence of one-character strings, so that        *)
(* slicing, rindex, split and substring tests are computed as Python       *)
(* computes them.                                                          *)
(***************************************************************************)
EXTENDS Integers, Sequences, FiniteSets, TLC

VARIABLES
    \* ---- raster_utils.get_windows / split_image ----
    width,          \* profile["width"] of the source raster
    height,         \* profile["height"] of the source raster
    num_splits,     \* split_image argument
    window_size,    \* split_image / get_windows tile size
    offset,         \* get_windows offset argument
    windows,        \* list(get_windows(...)) of the last call
    metas,          \* list returned by split_image
    plan_pc,        \* "init" | "planned"
    \* ---- task.py _clean_geometry ----
    cg_input,       \* the wkt the caller passed
    cg_wkt,         \* wkt of the current activation
    cg_fail_fast,   \* fail_fast of the current activation
    cg_calls,       \* activations of _clean_geometry made for this call
    cg_repairs,     \* geom.buffer(0) repairs made for this call
    cg_result,      \* the value returned (None = rejected)
    cg_pc,          \* "idle" | "call" | "returned" | "raised"
    cg_done,        \* number of calls completed
    \* ---- task.py split_osmium_text_file ----
    MAX_ROWS,       \* class attribute MAX_ROWS (1000000 in the source, scaled down
                    \* to 2..MaxCap, so that max_rows = MAX_ROWS - 1 stays positive)
    process_roads,  \* self.process_roads
    runtime,        \* "refcount": a file object is closed when its last reference
                    \* goes; "tracing": it stays open until some later collection
    fr,             \* the lines read from txt_file so far
    file_indices,   \* tag -> rows written to its current shard
    file_handlers,  \* tag -> id of its current shard's handle
    files,          \* id -> [path, rows, handle]: the shard files created
    output_files,   \* the list of shard paths returned
    roads_file,     \* [handle, rows]: the road table
    shard_pc,       \* "start" | "reading" | "returned" | "raised"
    \* ---- raster_utils.stack_images ----
    image_paths,    \* meta.source_images: the single-band sources, in band order
    strip,          \* index of the split plan this worker stacks (0: none yet)
    pair,           \* index of the next (read window, write window) pair
    output_image,   \* band -> pixel -> value of the output raster (<<>>: not opened)
    stack_pc,       \* "init" | "stacking" | "done" | "none" | "single" | "raised"
    \* ---- task.py rasterize ----
    csv_files,      \* number of shard files handed to rasterize
    units,          \* unit -> "pending" | "ok" | "gdal_failed" | "raised"
    results,        \* unit -> what executor.map holds for it
    collected,      \* number of results the caller's loop has taken
    rasterize_pc    \* "init" | "mapping" | "returned" | "raised"

planVars == <<width, height, num_splits, window_size, offset, windows, metas, plan_pc>>

cleanVars == <<cg_input, cg_wkt, cg_fail_fast, cg_calls, cg_repairs, cg_result, cg_pc, cg_done>>

shardVars ==
    <<MAX_ROWS, process_roads, runtime, fr, file_indices, file_handlers, files,
      output_files, roads_file, shard_pc>>

stackVars == <<image_paths, strip, pair, output_image, stack_pc>>

rasterVars == <<csv_files, units, results, collected, rasterize_pc>>

vars == <<planVars, cleanVars, shardVars, stackVars, rasterVars>>

\* ------------------------------------------------------------------ bounds
MaxWidth == 5
MaxHeight == 3
MaxSplits == 4
MaxWindowSize == 3
MaxOffset == 2

\* ------------------------------------------------------------ small helpers
\* int(ceil(a * 1.0 / b)) for positive b (exact on the integers modelled)
Ceil(a, b) == (a + b - 1) \div b

RECURSIVE SumSeq(_)
SumSeq(s) == IF s = <<>> THEN 0 ELSE Head(s) + SumSeq(Tail(s))

\* ------------------------------------------------- raster_utils.get_windows
\* rasterio.windows.Window(col_off, row_off, width, height)
Window(col_off, row_off, w, h) ==
    [col_off |-> col_off, row_off |-> row_off, width |-> w, height |-> h]

WinArea(win) == win.width * win.height

WinAreas(ws) == [i \in 1..Len(ws) |-> WinArea(ws[i])]

WinCovers(win, x, y) ==
    /\ win.col_off <= x /\ x < win.col_off + win.width
    /\ win.row_off <= y /\ y < win.row_off + win.height

WinDisjoint(a, b) ==
    \/ a.col_off + a.width <= b.col_off
    \/ b.col_off + b.width <= a.col_off
    \/ a.row_off + a.height <= b.row_off
    \/ b.row_off + b.height <= a.row_off

WinShift(win, dx, dy) ==
    Window(win.col_off + dx, win.row_off + dy, win.width, win.height)

\* mutant: the tile is never clipped
ClipSizeNoClip(off, size, dim) == size

\* lines 46-51 (and 53-58): size of a tile starting at `off` along a dimension
ClipSize(off, size, dim) ==
    IF off > dim THEN dim
    ELSE IF off + size < dim THEN size
    ELSE dim - off

\* mutant: the offset takes part in the clipping arithmetic
get_windows_offset_in_clip(w, h, size, off) ==
    LET num_windows_w == Ceil(w, size)
        num_windows_h == Ceil(h, size)
    IN  [k \in 1..(num_windows_h * num_windows_w) |->
            LET offset_x == ((k - 1) % num_windows_w) * size + off[1]
                offset_y == ((k - 1) \div num_windows_w) * size + off[2]
            IN  Window(offset_x, offset_y,
                       ClipSize(offset_x, size, w), ClipSize(offset_y, size, h))]

\* lines 29-62: the windows in the order they are yielded. The outer loop runs
\* num_windows_h times adding `size` to offset_y, the inner loop num_windows_w
\* times adding `size` to offset_x (reset to 0 for each row).
get_windows(w, h, size, off) ==
    LET num_windows_w == Ceil(w, size)
        num_windows_h == Ceil(h, size)
    IN  [k \in 1..(num_windows_h * num_windows_w) |->
            LET offset_x == ((k - 1) % num_windows_w) * size
                offset_y == ((k - 1) \div num_windows_w) * size
            IN  Window(offset_x + off[1], offset_y + off[2],
                       ClipSize(offset_x, size, w), ClipSize(offset_y, size, h))]

\* ------------------------------------------------- raster_utils.split_image
\* lines 153-156: new_image_width of strip n (0-based)
StripWidth(n, splits, w, split_img_width) ==
    IF split_img_width * n > w
    THEN w - (split_img_width * (n - 1))
    ELSE split_img_width

\* lines 139-177: the ImageStackMetadata of strip n (0-based). The profile keeps
\* the source height; its transform origin is the source transform evaluated at
\* column x_read_offset (kept here as that column).
StripMeta(n, splits, w, h, size) ==
    LET split_img_width == Ceil(w, splits)
        x_read_offset == split_img_width * n
        new_image_width == StripWidth(n, splits, w, split_img_width)
    IN  [x_read_offset |-> x_read_offset,
         y_read_offset |-> 0,
         profile |-> [width |-> new_image_width, height |-> h,
                      origin_col |-> x_read_offset],
         read_windows |-> get_windows(new_image_width, h, size, <<x_read_offset, 0>>),
         write_windows |-> get_windows(new_image_width, h, size, <<0, 0>>)]

\* lines 117-179 (num_splits >= 1; num_splits < 1 raises ValueError)
split_image(w, h, splits, size) ==
    IF splits = 1
    THEN <<[x_read_offset |-> 0,
            y_read_offset |-> 0,
            profile |-> [width |-> w, height |-> h, origin_col |-> 0],
            read_windows |-> <<Window(0, 0, w, h)>>,
            write_windows |-> <<Window(0, 0, w, h)>>]>>
    ELSE [i \in 1..splits |-> StripMeta(i - 1, splits, w, h, size)]

\* a call list(get_windows(width, height, window_size, offset))
GetWindows ==
    /\ plan_pc = "init"
    /\ windows = <<>>
    /\ windows' = get_windows(width, height, window_size, offset)
    /\ UNCHANGED <<width, height, num_splits, window_size, offset, metas, plan_pc>>
    /\ UNCHANGED <<cleanVars, shardVars, stackVars, rasterVars>>

\* a call split_image(image_paths, num_splits, window_size)
SplitImage ==
    /\ plan_pc = "init"
    /\ metas' = split_image(width, height, num_splits, window_size)
    /\ plan_pc' = "planned"
    /\ UNCHANGED <<width, height, num_splits, window_size, offset, windows>>
    /\ UNCHANGED <<cleanVars, shardVars, stackVars, rasterVars>>

\* ====================================================================== text
\* Python's None
None == <<"None">>

Min(a, b) == IF a < b THEN a ELSE b
Max(a, b) == IF a > b THEN a ELSE b

\* s[start:stop] of Python (0-based, negative indices count from the end)
PySlice(s, start, stop) ==
    LET n == Len(s)
        lo == IF start < 0 THEN Max(n + start, 0) ELSE Min(start, n)
        hi == IF stop < 0 THEN Max(n + stop, 0) ELSE Min(stop, n)
    IN  SubSeq(s, lo + 1, hi)

\* 1-based position of the last ch in s, 0 when there is none
\* (str.rindex raises ValueError there)
LastIndexOf(s, ch) ==
    LET S == {i \in 1..Len(s) : s[i] = ch}
    IN  IF S = {} THEN 0 ELSE CHOOSE i \in S : \A j \in S : j <= i

FirstIndexOf(s, ch) ==
    LET S == {i \in 1..Len(s) : s[i] = ch}
    IN  IF S = {} THEN 0 ELSE CHOOSE i \in S : \A j \in S : i <= j

\* str.split(sep): always at least one (possibly empty) piece
RECURSIVE Split(_, _)
Split(s, sep) ==
    LET i == FirstIndexOf(s, sep)
    IN  IF i = 0 THEN <<s>>
        ELSE <<SubSeq(s, 1, i - 1)>> \o Split(SubSeq(s, i + 1, Len(s)), sep)

\* sub in s
Contains(s, sub) ==
    \E i \in 1..(Len(s) - Len(sub) + 1) : SubSeq(s, i, i + Len(sub) - 1) = sub

\* f"{wkt}": None is formatted as the text None
Fmt(wkt) == IF wkt = None THEN <<"N", "o", "n", "e">> ELSE wkt

\* ------------------------------------------------------------ geometry texts
POLYGON == <<"P", "O", "L", "Y", "G", "O", "N">>

\* a polygon as the exporter writes it, POLYGON((c)), c standing for its coordinates
Poly(c) == POLYGON \o <<"(", "(", c, ")", ")">>

\* the same polygon as shapely's dumps writes it, POLYGON ((c))
PolyDumped(c) == POLYGON \o <<" ", "(", "(", c, ")", ")">>

EmptyPolygon == POLYGON \o <<" ", "E", "M", "P", "T", "Y">>

LineString(c) == <<"L", "I", "N", "E", "S", "T", "R", "I", "N", "G", "(", c, ")">>

\* a polygon text that shapely cannot parse
JunkPolygon == POLYGON \o <<"(", "x", ")">>

\* ----------------------------------------------- task.py class attributes
MIN_GEOM_AREA == 5

\* ------------------------------------------------ shapely / pyproj (external)
\* What the geometry library answers for the polygons of the model, keyed by
\* the coordinates c: is_valid and is_empty of the rounded, simplified geometry,
\* its geodesic area in square metres, and the coordinates of its buffer(0)
\* ("E" for an empty result).
Coords == {"1", "2", "3", "4", "5", "6", "7", "8"}

GeomTable(c) ==
    CASE c = "1" -> [valid |-> TRUE,  empty |-> FALSE, area |-> 10, buffer0 |-> "1"]
      [] c = "2" -> [valid |-> TRUE,  empty |-> FALSE, area |-> 3,  buffer0 |-> "2"]
      [] c = "3" -> [valid |-> FALSE, empty |-> FALSE, area |-> 10, buffer0 |-> "4"]
      [] c = "4" -> [valid |-> TRUE,  empty |-> FALSE, area |-> 5,  buffer0 |-> "4"]
      [] c = "5" -> [valid |-> FALSE, empty |-> FALSE, area |-> 10, buffer0 |-> "6"]
      [] c = "6" -> [valid |-> FALSE, empty |-> FALSE, area |-> 10, buffer0 |-> "6"]
      [] c = "7" -> [valid |-> FALSE, empty |-> FALSE, area |-> 10, buffer0 |-> "E"]
      [] c = "8" -> [valid |-> FALSE, empty |-> FALSE, area |-> 10, buffer0 |-> "2"]

\* shp_wkt.loads(shp_wkt.dumps(shp_wkt.loads(wkt), rounding_precision=5)).simplify(0)
\* and what is then asked of the geometry
Shapely(wkt) ==
    IF wkt = EmptyPolygon
    THEN [parses |-> TRUE, valid |-> TRUE, empty |-> TRUE, area |-> 0,
          dumps |-> EmptyPolygon, buffer0 |-> EmptyPolygon]
    ELSE IF \E c \in Coords : wkt \in {Poly(c), PolyDumped(c)}
    THEN LET c == CHOOSE c \in Coords : wkt \in {Poly(c), PolyDumped(c)}
             g == GeomTable(c)
         IN  [parses |-> TRUE, valid |-> g.valid, empty |-> g.empty, area |-> g.area,
              dumps |-> PolyDumped(c),
              buffer0 |-> IF g.buffer0 = "E" THEN EmptyPolygon
                          ELSE PolyDumped(g.buffer0)]
    ELSE [parses |-> FALSE, valid |-> FALSE, empty |-> FALSE, area |-> 0,
          dumps |-> None, buffer0 |-> None]

\* --------------------------------------- HIIOSMRasterize._clean_geometry
Returns(v) == [kind |-> "return", value |-> v, fail_fast |-> FALSE]
Recurses(w, ff) == [kind |-> "recurse", value |-> w, fail_fast |-> ff]
Raises == [kind |-> "raise", value |-> None, fail_fast |-> FALSE]

\* mutant: the retry is not marked
CleanBodyRetryUnmarked(wkt, fail_fast) ==
    IF wkt = None \/ wkt = <<>> \/ ~Contains(wkt, POLYGON) THEN Returns(wkt)
    ELSE LET geom == Shapely(wkt) IN
         IF ~geom.parses THEN Raises
         ELSE IF ~geom.valid THEN Recurses(geom.buffer0, fail_fast)
         ELSE IF geom.empty THEN Returns(None)
         ELSE IF geom.area < MIN_GEOM_AREA THEN Returns(None)
         ELSE Returns(geom.dumps)

\* lines 219-240: one activation of _clean_geometry: it returns a value, raises
\* (the text does not parse), or makes the tail call of line 230 on the
\* buffered geometry with fail_fast = True
CleanBody(wkt, fail_fast) ==
    IF wkt = None \/ wkt = <<>> \/ ~Contains(wkt, POLYGON) THEN Returns(wkt)
    ELSE LET geom == Shapely(wkt) IN
         IF ~geom.parses THEN Raises
         ELSE IF ~geom.valid
              THEN IF fail_fast THEN Returns(None)
                   ELSE Recurses(geom.buffer0, TRUE)
         ELSE IF geom.empty THEN Returns(None)
         ELSE IF geom.area < MIN_GEOM_AREA THEN Returns(None)
         ELSE Returns(geom.dumps)

\* lines 216-240: the call, followed to its return (or raise)
RECURSIVE _clean_geometry(_, _)
_clean_geometry(wkt, fail_fast) ==
    LET b == CleanBody(wkt, fail_fast)
    IN  IF b.kind = "recurse" THEN _clean_geometry(b.value, b.fail_fast) ELSE b

\* ------------------------------------------- the Geometry Cleaner, stepwise

MaxCleanCalls == 3

\* the geometries handed to the cleaner
CleanInputs ==
    {Poly(c) : c \in Coords} \cup {PolyDumped(c) : c \in Coords}
        \cup {LineString("9"), JunkPolygon, EmptyPolygon, None, <<>>}

\* line 343: self._clean_geometry(wkt, geod), fail_fast defaulted to False
CleanCall ==
    /\ cg_pc \in {"idle", "returned", "raised"}
    /\ cg_done < MaxCleanCalls
    /\ \E wkt \in CleanInputs :
          /\ cg_input' = wkt
          /\ cg_wkt' = wkt
    /\ cg_fail_fast' = FALSE
    /\ cg_calls' = 0
    /\ cg_repairs' = 0
    /\ cg_result' = None
    /\ cg_pc' = "call"
    /\ UNCHANGED cg_done
    /\ UNCHANGED <<planVars, shardVars, stackVars, rasterVars>>

\* lines 219-240: one activation of the function body
CleanActivation ==
    /\ cg_pc = "call"
    /\ LET b == CleanBody(cg_wkt, cg_fail_fast) IN
       /\ cg_calls' = cg_calls + 1
       /\ IF b.kind = "recurse"
          THEN /\ cg_wkt' = b.value
               /\ cg_fail_fast' = b.fail_fast
               /\ cg_repairs' = cg_repairs + 1
               /\ UNCHANGED <<cg_result, cg_pc, cg_done>>
          ELSE /\ cg_result' = b.value
               /\ cg_pc' = IF b.kind = "raise" THEN "raised" ELSE "returned"
               /\ cg_done' = cg_done + 1
               /\ UNCHANGED <<cg_wkt, cg_fail_fast, cg_repairs>>
    /\ UNCHANGED cg_input
    /\ UNCHANGED <<planVars, shardVars, stackVars, rasterVars>>

\* ======================================================= the Feature Sharder
TagAB == <<"a", "=", "b">>
TagCD == <<"c", "=", "d">>
TagHP == <<"h", "=", "p">>

\* config["road_tags"] of osmium_config.json (lines 266-269): tag -> (attribute, tag)
roads_tags == TagHP :> <<"highway", "primary">>

SP == <<" ">>
NL == <<"\n">>
COMMA == <<",">>

\* the lines the exporter's text file may hold
RowAB == Poly("1") \o SP \o TagAB \o NL
RowRoadThenAB == Poly("1") \o SP \o TagHP \o COMMA \o TagAB \o NL
RowSmallRoadThenAB == Poly("2") \o SP \o TagHP \o COMMA \o TagAB \o NL
RowABThenRoad == Poly("3") \o SP \o TagAB \o COMMA \o TagHP \o NL
RowLineRoad == LineString("9") \o SP \o TagHP \o NL
RowNoParen == <<"g", "a", "r", "b", "a", "g", "e", "\n">>
RowNoTags == Poly("1") \o NL
RowJunkRoad == JunkPolygon \o SP \o TagHP \o NL
RowNoSpace == Poly("1") \o TagAB \o COMMA \o TagCD \o NL
RowNoNewline == Poly("1") \o SP \o TagCD

Rows ==
    {RowAB, RowRoadThenAB, RowSmallRoadThenAB, RowABThenRoad, RowLineRoad,
     RowNoParen, RowNoTags, RowJunkRoad, RowNoSpace, RowNoNewline}


MaxStream == 3
MaxCap == 3

\* lines 177-185: [raised, wkt, attr_tags]; (None, None) for an empty tag list,
\* ValueError from rindex when the row holds no ")"
_parse_row(row) ==
    LET p == LastIndexOf(row, ")") IN
    IF p = 0
    THEN [raised |-> TRUE, wkt |-> None, attr_tags |-> <<>>]
    ELSE LET idx == (p - 1) + 1
             attr_tags == Split(PySlice(row, idx + 1, -1), ",")
         IN  IF attr_tags = <<>> \/ attr_tags[1] = <<>>
             THEN [raised |-> FALSE, wkt |-> None, attr_tags |-> <<>>]
             ELSE [raised |-> FALSE, wkt |-> PySlice(row, 0, idx), attr_tags |-> attr_tags]

\* lines 168-175: a new file named from the tag and a fresh uuid, opened for
\* writing (its header line "WKT","BURN" is not counted among the rows)
_create_file(attributes_tag, uuid) ==
    [path |-> [tag |-> attributes_tag, uuid |-> uuid], rows |-> <<>>, handle |-> "open"]

\* the handle a dictionary slot held is dropped when the slot is overwritten
\* (line 335): closed at once by a reference-counting runtime, left open otherwise
Dropped(handle) == IF runtime = "refcount" THEN "closed" ELSE handle

\* mutant: the shard is rotated one row late
NeedsNewFileLate(st, attr_tag) ==
    \/ attr_tag \notin DOMAIN st.file_handlers
    \/ st.file_indices[attr_tag] > MAX_ROWS - 1

\* lines 329-336: the shard to write to, rotated at max_rows = MAX_ROWS - 1
NeedsNewFile(st, attr_tag) ==
    \/ attr_tag \notin DOMAIN st.file_handlers
    \/ st.file_indices[attr_tag] >= MAX_ROWS - 1

\* line 338: the geometry text written to the shard row
RowGeometry(st, geom) == Fmt(st.wkt)

\* lines 329-347: the body of "for attr_tag in attribute_tags" for one tag.
\* st carries the sharder's tables and the loop's wkt; geom is the geometry text
\* of the record as parsed, kept beside each row written.
TagBody(st, attr_tag, geom) ==
    LET id == Len(st.files) + 1
        st1 == IF NeedsNewFile(st, attr_tag)
               THEN [st EXCEPT
                       !.files = Append(
                           [k \in 1..Len(st.files) |->
                               IF attr_tag \in DOMAIN st.file_handlers
                                  /\ st.file_handlers[attr_tag] = k
                               THEN [st.files[k] EXCEPT !.handle = Dropped(@)]
                               ELSE st.files[k]],
                           _create_file(attr_tag, id)),
                       !.output_files = Append(@, [tag |-> attr_tag, uuid |-> id]),
                       !.file_handlers = (attr_tag :> id) @@ @,
                       !.file_indices = (attr_tag :> 0) @@ @]
               ELSE st
        h == st1.file_handlers[attr_tag]
        st2 == [st1 EXCEPT
                  !.files[h].rows = Append(@, [wkt |-> RowGeometry(st, geom), geom |-> geom]),
                  !.file_indices[attr_tag] = @ + 1]
    IN  IF process_roads /\ attr_tag \in DOMAIN roads_tags
        THEN LET rd_attr_tag == roads_tags[attr_tag]
                 c == _clean_geometry(st.wkt, FALSE)
             IN  IF c.kind = "raise"
                 THEN [st2 EXCEPT !.raised = TRUE]
                 ELSE [st2 EXCEPT
                         !.wkt = c.value,
                         !.roads_rows =
                             IF c.value # None
                             THEN Append(@, <<c.value, rd_attr_tag[1], rd_attr_tag[2]>>)
                             ELSE @]
        ELSE st2

\* lines 328-347: the loop over the record's tags, left at the first raise
RECURSIVE TagLoop(_, _, _)
TagLoop(st, attr_tags, geom) ==
    IF attr_tags = <<>> \/ st.raised THEN st
    ELSE TagLoop(TagBody(st, Head(attr_tags), geom), Tail(attr_tags), geom)

\* lines 307-321: the tables are created, the road table is opened (and its
\* header written) when roads are processed, txt_file is opened
ShardStart ==
    /\ shard_pc = "start"
    /\ shard_pc' = "reading"
    /\ roads_file' = IF process_roads THEN [handle |-> "open", rows |-> <<>>]
                     ELSE roads_file
    /\ UNCHANGED <<MAX_ROWS, process_roads, runtime, fr, file_indices, file_handlers,
                   files, output_files>>
    /\ UNCHANGED <<planVars, cleanVars, stackVars, rasterVars>>

\* lines 322-347: one iteration of "for row in fr"
ShardRow ==
    /\ shard_pc = "reading"
    /\ Len(fr) < MaxStream
    /\ \E row \in Rows :
          LET parsed == _parse_row(row)
              st0 == [file_handlers |-> file_handlers, file_indices |-> file_indices,
                      files |-> files, output_files |-> output_files,
                      roads_rows |-> roads_file.rows, wkt |-> parsed.wkt,
                      raised |-> FALSE]
              st == IF parsed.raised \/ parsed.wkt = None THEN st0
                    ELSE TagLoop(st0, parsed.attr_tags, parsed.wkt)
          IN  /\ fr' = Append(fr, row)
              /\ shard_pc' = IF parsed.raised \/ st.raised THEN "raised" ELSE "reading"
              /\ file_handlers' = st.file_handlers
              /\ file_indices' = st.file_indices
              /\ files' = st.files
              /\ output_files' = st.output_files
              /\ roads_file' = [roads_file EXCEPT !.rows = st.roads_rows]
    /\ UNCHANGED <<MAX_ROWS, process_roads, runtime>>
    /\ UNCHANGED <<planVars, cleanVars, stackVars, rasterVars>>

\* lines 349-352: end of the stream: the road table is closed and the function
\* returns; its frame goes, and with it the last references to the shard handles
ShardReturn ==
    /\ shard_pc = "reading"
    /\ shard_pc' = "returned"
    /\ roads_file' = IF process_roads THEN [roads_file EXCEPT !.handle = "closed"]
                     ELSE roads_file
    /\ files' = [k \in 1..Len(files) |-> [files[k] EXCEPT !.handle = Dropped(@)]]
    /\ UNCHANGED <<MAX_ROWS, process_roads, runtime, fr, file_indices, file_handlers,
                   output_files>>
    /\ UNCHANGED <<planVars, cleanVars, stackVars, rasterVars>>

\* ================================================== the Multiband Compositor

MaxStackWidth == 4
MaxStackHeight == 2
MaxStackSplits == 3
MaxStackTile == 2
MaxSources == 2

\* the single-band rasters _rasterize may have produced (burn value 1, 0 elsewhere);
\* every source has the width and height of the first
Patterns == {"zero", "ones", "left", "checker"}

\* dataset.read(indexes=1) of pattern pat at column x, row y
SrcValue(pat, x, y) ==
    CASE pat = "zero" -> 0
      [] pat = "ones" -> 1
      [] pat = "left" -> IF x = 0 THEN 1 ELSE 0
      [] pat = "checker" -> (x + y) % 2

\* sequences over S of length 0..n
RECURSIVE SeqsUpTo(_, _)
SeqsUpTo(S, n) ==
    IF n = 0 THEN {<<>>}
    ELSE LET shorter == SeqsUpTo(S, n - 1)
         IN  shorter \cup {Append(q, x) : q \in shorter, x \in S}

\* a window lies inside a raster of w columns and h rows (rasterio refuses a
\* non-boundless read or write outside the dataset)
WindowInside(win, w, h) ==
    /\ win.col_off >= 0 /\ win.row_off >= 0
    /\ win.width >= 1 /\ win.height >= 1
    /\ win.col_off + win.width <= w
    /\ win.row_off + win.height <= h

\* line 99: chunk = image_dataset.read(window=window, indexes=1)
ReadChunk(pat, win) ==
    [q \in (0..(win.width - 1)) \X (0..(win.height - 1)) |->
        SrcValue(pat, win.col_off + q[1], win.row_off + q[2])]

\* lines 21-26: some value of the chunk is non-zero
values_check(chunk) == \E q \in DOMAIN chunk : chunk[q] # 0

\* mutant: the band index is the 0-based position, clamped to the first band
WriteBandZeroBased(n) == IF n = 0 THEN 1 ELSE n

\* line 102: indexes=n + 1 for the source at 0-based position n
WriteBand(n) == n + 1

\* line 102: output_image.write(chunk, window=write_window, indexes=band)
WriteChunk(out, chunk, win, band) ==
    [out EXCEPT ![band] =
        [q \in DOMAIN out[band] |->
            IF WinCovers(win, q[1], q[2])
            THEN chunk[<<q[1] - win.col_off, q[2] - win.row_off>>]
            ELSE out[band][q]]]

\* lines 98-102: the loop over the sources for one pair of windows, from the
\* source at 0-based position n on
RECURSIVE StackSources(_, _, _, _)
StackSources(out, n, window, write_window) ==
    IF n >= Len(image_paths) THEN out
    ELSE LET chunk == ReadChunk(image_paths[n + 1], window)
         IN  IF values_check(chunk) = FALSE
             THEN StackSources(out, n + 1, window, write_window)
             ELSE StackSources(WriteChunk(out, chunk, write_window, WriteBand(n)),
                               n + 1, window, write_window)

\* lines 70-94 for the plan of one strip: no source gives None, one source is
\* returned as it is; otherwise the output raster is created from the plan's
\* profile with one band per source, all at nodata 0 (a raster cannot be
\* created with a width below 1)
StackOpen ==
    /\ plan_pc = "planned"
    /\ stack_pc = "init"
    /\ \E k \in 1..Len(metas) :
          /\ strip' = k
          /\ IF Len(image_paths) = 0
             THEN stack_pc' = "none" /\ UNCHANGED output_image
             ELSE IF Len(image_paths) = 1
             THEN stack_pc' = "single" /\ UNCHANGED output_image
             ELSE IF metas[k].profile.width < 1
             THEN stack_pc' = "raised" /\ UNCHANGED output_image
             ELSE /\ stack_pc' = "stacking"
                  /\ output_image' =
                        [band \in 1..Len(image_paths) |->
                            [q \in (0..(metas[k].profile.width - 1))
                                     \X (0..(metas[k].profile.height - 1)) |-> 0]]
    /\ pair' = 1
    /\ UNCHANGED image_paths
    /\ UNCHANGED <<planVars, cleanVars, shardVars, rasterVars>>

\* lines 96-102: one (window, write_window) pair of zip(read_windows,
\* write_windows); a read window outside the sources ends the worker
StackPair ==
    /\ stack_pc = "stacking"
    /\ pair <= Min(Len(metas[strip].read_windows), Len(metas[strip].write_windows))
    /\ LET window == metas[strip].read_windows[pair]
           write_window == metas[strip].write_windows[pair]
       IN  IF WindowInside(window, width, height)
           THEN /\ output_image' = StackSources(output_image, 0, window, write_window)
                /\ pair' = pair + 1
                /\ UNCHANGED stack_pc
           ELSE /\ stack_pc' = "raised"
                /\ UNCHANGED <<output_image, pair>>
    /\ UNCHANGED <<image_paths, strip>>
    /\ UNCHANGED <<planVars, cleanVars, shardVars, rasterVars>>

\* lines 104-114: the pairs are exhausted, the datasets are closed, the output
\* path is returned
StackClose ==
    /\ stack_pc = "stacking"
    /\ pair > Min(Len(metas[strip].read_windows), Len(metas[strip].write_windows))
    /\ stack_pc' = "done"
    /\ UNCHANGED <<image_paths, strip, pair, output_image>>
    /\ UNCHANGED <<planVars, cleanVars, shardVars, rasterVars>>

\* =================================================== the Rasterization Fan-out

MaxShards == 3

\* what can happen in a worker: gdal.Rasterize succeeds; it fails, reporting the
\* error its own way and returning None (GDAL's Python bindings raise nothing
\* unless gdal.UseExceptions() was called, and the task never calls it); or the
\* call raises (a bad argument, a worker process that dies)
Outcomes == {"ok", "gdal_failed", "raised"}

\* lines 41-65: the value gdal.Rasterize returned is dropped and the output path
\* is returned; only an exception leaves the function another way
_rasterize(unit, outcome) ==
    IF outcome = "raised"
    THEN [kind |-> "exception", value |-> unit]
    ELSE [kind |-> "path", value |-> unit]

\* line 374: isinstance(result, Exception)
IsExceptionValue(result) == FALSE

\* lines 358-371: the output paths are named and the units are submitted
RasterizeStart ==
    /\ rasterize_pc = "init"
    /\ \E n \in 0..MaxShards :
          /\ csv_files' = n
          /\ units' = [i \in 1..n |-> "pending"]
          /\ results' = [i \in 1..n |-> [kind |-> "none", value |-> i]]
    /\ collected' = 0
    /\ rasterize_pc' = "mapping"
    /\ UNCHANGED <<planVars, cleanVars, shardVars, stackVars>>

\* a pool worker runs _rasterize on one unit
WorkerRun ==
    /\ rasterize_pc = "mapping"
    /\ \E i \in 1..csv_files, o \in Outcomes :
          /\ units[i] = "pending"
          /\ units' = [units EXCEPT ![i] = o]
          /\ results' = [results EXCEPT ![i] = _rasterize(i, o)]
    /\ UNCHANGED <<csv_files, collected, rasterize_pc>>
    /\ UNCHANGED <<planVars, cleanVars, shardVars, stackVars>>

\* lines 373-375: the loop takes the next result in submission order; the
\* iterator of executor.map re-raises the exception a unit ended with
Collect ==
    /\ rasterize_pc = "mapping"
    /\ collected < csv_files
    /\ units[collected + 1] # "pending"
    /\ LET result == results[collected + 1] IN
       IF result.kind = "exception" \/ IsExceptionValue(result)
       THEN rasterize_pc' = "raised" /\ UNCHANGED collected
       ELSE collected' = collected + 1 /\ UNCHANGED rasterize_pc
    /\ UNCHANGED <<csv_files, units, results>>
    /\ UNCHANGED <<planVars, cleanVars, shardVars, stackVars>>

\* line 377: every result was taken: return output_files
RasterizeReturn ==
    /\ rasterize_pc = "mapping"
    /\ collected = csv_files
    /\ rasterize_pc' = "returned"
    /\ UNCHANGED <<csv_files, units, results, collected>>
    /\ UNCHANGED <<planVars, cleanVars, shardVars, stackVars>>

\* ============================================================ specifications
\* the Window Tiler and the Split Planner on every raster size within the bounds
PlanSpecInit ==
    /\ width \in 1..MaxWidth
    /\ height \in 1..MaxHeight
    /\ num_splits \in 1..MaxSplits
    /\ window_size \in 1..MaxWindowSize
    /\ offset \in (0..MaxOffset) \X (0..MaxOffset)
    /\ windows = <<>> /\ metas = <<>> /\ plan_pc = "init"
    /\ cg_input = None /\ cg_wkt = None /\ cg_fail_fast = FALSE
    /\ cg_calls = 0 /\ cg_repairs = 0 /\ cg_result = None
    /\ cg_pc = "idle" /\ cg_done = 0
    /\ MAX_ROWS = 1 /\ process_roads = FALSE /\ runtime = "refcount"
    /\ fr = <<>> /\ file_indices = <<>> /\ file_handlers = <<>> /\ files = <<>>
    /\ output_files = <<>> /\ roads_file = [handle |-> "none", rows |-> <<>>]
    /\ shard_pc = "start"
    /\ image_paths = <<>> /\ strip = 0 /\ pair = 0
    /\ output_image = <<>> /\ stack_pc = "init"
    /\ csv_files = 0 /\ units = <<>> /\ results = <<>> /\ collected = 0
    /\ rasterize_pc = "init"

PlanNext == GetWindows \/ SplitImage

SpecPlan == PlanSpecInit /\ [][PlanNext]_vars

\* the Geometry Cleaner called on the geometries of CleanInputs
CleanSpecInit ==
    /\ width = 1 /\ height = 1 /\ num_splits = 1 /\ window_size = 1
    /\ offset = <<0, 0>> /\ windows = <<>> /\ metas = <<>> /\ plan_pc = "init"
    /\ cg_input = None /\ cg_wkt = None /\ cg_fail_fast = FALSE
    /\ cg_calls = 0 /\ cg_repairs = 0 /\ cg_result = None
    /\ cg_pc = "idle" /\ cg_done = 0
    /\ MAX_ROWS = 1 /\ process_roads = FALSE /\ runtime = "refcount"
    /\ fr = <<>> /\ file_indices = <<>> /\ file_handlers = <<>> /\ files = <<>>
    /\ output_files = <<>> /\ roads_file = [handle |-> "none", rows |-> <<>>]
    /\ shard_pc = "start"
    /\ image_paths = <<>> /\ strip = 0 /\ pair = 0
    /\ output_image = <<>> /\ stack_pc = "init"
    /\ csv_files = 0 /\ units = <<>> /\ results = <<>> /\ collected = 0
    /\ rasterize_pc = "init"

CleanNext == CleanCall \/ CleanActivation

SpecClean == CleanSpecInit /\ [][CleanNext]_vars

\* split_osmium_text_file on every stream of up to MaxStream lines of Rows
ShardSpecInit ==
    /\ width = 1 /\ height = 1 /\ num_splits = 1 /\ window_size = 1
    /\ offset = <<0, 0>> /\ windows = <<>> /\ metas = <<>> /\ plan_pc = "init"
    /\ cg_input = None /\ cg_wkt = None /\ cg_fail_fast = FALSE
    /\ cg_calls = 0 /\ cg_repairs = 0 /\ cg_result = None
    /\ cg_pc = "idle" /\ cg_done = 0
    /\ MAX_ROWS \in 2..MaxCap
    /\ process_roads \in BOOLEAN
    /\ runtime \in {"refcount", "tracing"}
    /\ fr = <<>> /\ file_indices = <<>> /\ file_handlers = <<>> /\ files = <<>>
    /\ output_files = <<>> /\ roads_file = [handle |-> "none", rows |-> <<>>]
    /\ shard_pc = "start"
    /\ image_paths = <<>> /\ strip = 0 /\ pair = 0
    /\ output_image = <<>> /\ stack_pc = "init"
    /\ csv_files = 0 /\ units = <<>> /\ results = <<>> /\ collected = 0
    /\ rasterize_pc = "init"

ShardNext == ShardStart \/ ShardRow \/ ShardReturn

SpecShard == ShardSpecInit /\ [][ShardNext]_vars

\* split_image followed by stack_images on one strip of the plan
StackSpecInit ==
    /\ width \in 1..MaxStackWidth
    /\ height \in 1..MaxStackHeight
    /\ num_splits \in 1..MaxStackSplits
    /\ window_size \in 1..MaxStackTile
    /\ offset = <<0, 0>> /\ windows = <<>> /\ metas = <<>> /\ plan_pc = "init"
    /\ cg_input = None /\ cg_wkt = None /\ cg_fail_fast = FALSE
    /\ cg_calls = 0 /\ cg_repairs = 0 /\ cg_result = None
    /\ cg_pc = "idle" /\ cg_done = 0
    /\ MAX_ROWS = 1 /\ process_roads = FALSE /\ runtime = "refcount"
    /\ fr = <<>> /\ file_indices = <<>> /\ file_handlers = <<>> /\ files = <<>>
    /\ output_files = <<>> /\ roads_file = [handle |-> "none", rows |-> <<>>]
    /\ shard_pc = "start"
    /\ image_paths \in SeqsUpTo(Patterns, MaxSources)
    /\ strip = 0 /\ pair = 0 /\ output_image = <<>> /\ stack_pc = "init"
    /\ csv_files = 0 /\ units = <<>> /\ results = <<>> /\ collected = 0
    /\ rasterize_pc = "init"

StackNext == SplitImage \/ StackOpen \/ StackPair \/ StackClose

SpecStack == StackSpecInit /\ [][StackNext]_vars

\* rasterize on up to MaxShards shard files
RasterSpecInit ==
    /\ width = 1 /\ height = 1 /\ num_splits = 1 /\ window_size = 1
    /\ offset = <<0, 0>> /\ windows = <<>> /\ metas = <<>> /\ plan_pc = "init"
    /\ cg_input = None /\ cg_wkt = None /\ cg_fail_fast = FALSE
    /\ cg_calls = 0 /\ cg_repairs = 0 /\ cg_result = None
    /\ cg_pc = "idle" /\ cg_done = 0
    /\ MAX_ROWS = 1 /\ process_roads = FALSE /\ runtime = "refcount"
    /\ fr = <<>> /\ file_indices = <<>> /\ file_handlers = <<>> /\ files = <<>>
    /\ output_files = <<>> /\ roads_file = [handle |-> "none", rows |-> <<>>]
    /\ shard_pc = "start"
    /\ image_paths = <<>> /\ strip = 0 /\ pair = 0
    /\ output_image = <<>> /\ stack_pc = "init"
    /\ csv_files = 0 /\ units = <<>> /\ results = <<>> /\ collected = 0
    /\ rasterize_pc = "init"

RasterNext == RasterizeStart \/ WorkerRun \/ Collect \/ RasterizeReturn

SpecRaster == RasterSpecInit /\ [][RasterNext]_vars

Spec == SpecShard

\* ------------------------------------------------ properties of the planner
StripWidths == [i \in 1..Len(metas) |-> metas[i].profile.width]

\* C2: the widths in the profiles of the split plans sum to the source width:
\* every strip but the last is ceil(width/num_splits) wide and the last strip is
\* width - stripWidth*(num_splits-1) wide.
C2_StripWidthsSumToSource ==
    plan_pc = "planned" =>
        LET stripWidth == Ceil(width, num_splits) IN
        /\ Len(metas) = num_splits
        /\ SumSeq(StripWidths) = width
        /\ \A i \in 1..Len(metas) :
              metas[i].profile.width =
                  IF i < num_splits THEN stripWidth
                  ELSE width - stripWidth * (num_splits - 1)

\* C4: with zero offset the windows of get_windows cover the width x height grid
\* exactly once, inside the grid, positive in size, in row-major order,
\* ceil(height/size) * ceil(width/size) of them, the last row/column clipped.
C4_WindowsTileGrid ==
    (windows # <<>> /\ offset = <<0, 0>>) =>
        /\ Len(windows) = Ceil(height, window_size) * Ceil(width, window_size)
        /\ SumSeq(WinAreas(windows)) = width * height
        /\ \A i \in 1..Len(windows) :
              /\ windows[i].col_off >= 0 /\ windows[i].row_off >= 0
              /\ windows[i].width > 0 /\ windows[i].height > 0
              /\ windows[i].width <= window_size /\ windows[i].height <= window_size
              /\ windows[i].col_off + windows[i].width <= width
              /\ windows[i].row_off + windows[i].height <= height
        /\ \A i, j \in 1..Len(windows) :
              i < j =>
                  /\ WinDisjoint(windows[i], windows[j])
                  /\ \/ windows[i].row_off < windows[j].row_off
                     \/ /\ windows[i].row_off = windows[j].row_off
                        /\ windows[i].col_off < windows[j].col_off
        /\ \A x \in 0..(width - 1), y \in 0..(height - 1) :
              Cardinality({i \in 1..Len(windows) : WinCovers(windows[i], x, y)}) = 1

\* C4 witness: a zero-offset tiling of several rows and columns whose last row
\* and last column are both clipped
C4_Witness ==
    /\ windows # <<>> /\ offset = <<0, 0>>
    /\ width > window_size /\ height > window_size
    /\ width % window_size # 0 /\ height % window_size # 0
    /\ windows[Len(windows)].width < window_size
    /\ windows[Len(windows)].height < window_size

\* C10: in every split plan the read and write tile sets have the same length
\* and order and each read window is the write window at the same position
\* translated by (x_read_offset, 0); get_windows with an offset yields the
\* zero-offset windows with only their origins shifted.
C10_ReadIsShiftedWrite ==
    /\ plan_pc = "planned" =>
          \A k \in 1..Len(metas) :
              /\ metas[k].y_read_offset = 0
              /\ Len(metas[k].read_windows) = Len(metas[k].write_windows)
              /\ \A i \in 1..Len(metas[k].read_windows) :
                    metas[k].read_windows[i] =
                        WinShift(metas[k].write_windows[i], metas[k].x_read_offset, 0)
    /\ windows # <<>> =>
          LET zero == get_windows(width, height, window_size, <<0, 0>>) IN
          /\ Len(windows) = Len(zero)
          /\ \A i \in 1..Len(zero) :
                windows[i] = WinShift(zero[i], offset[1], offset[2])

\* C10 witness: a plan of several strips, one of them with a non-zero read
\* offset and more than one tile, and an offset call of get_windows
C10_Witness ==
    /\ plan_pc = "planned" /\ num_splits > 1
    /\ \E k \in 1..Len(metas) :
          /\ metas[k].x_read_offset > 0
          /\ Len(metas[k].read_windows) > 1
    /\ windows # <<>> /\ offset[1] > 0 /\ offset[2] > 0 /\ Len(windows) > 1

\* ------------------------------------------------ properties of the sharder
\* C1: N rows that all carry the same single tag, with row cap MAX_ROWS = C, give
\* exactly ceil(N/C) shard files, every shard but the last holding C data rows
\* and the last one the remainder.
C1_ShardsHoldCapRows ==
    (shard_pc = "returned" /\ \A i \in 1..Len(fr) : fr[i] = RowAB) =>
        LET N == Len(fr)
            C == MAX_ROWS
            shards == Ceil(N, C)
        IN  /\ Len(output_files) = shards
            /\ Len(files) = shards
            /\ \A k \in 1..Len(files) :
                  Len(files[k].rows) = IF k < shards THEN C ELSE N - C * (shards - 1)

\* C3: every row appended to a shard holds the original geometry text of its
\* record, whatever the Geometry Cleaner did with that record and whether or not
\* roads are processed.
C3_ShardRowsKeepGeometry ==
    \A k \in 1..Len(files) :
        \A j \in 1..Len(files[k].rows) :
            files[k].rows[j].wkt = files[k].rows[j].geom

\* C5: when split_osmium_text_file has finished, by return or by an exception,
\* every shard handle it opened and the road table handle are closed.
C5_HandlesClosedOnExit ==
    shard_pc \in {"returned", "raised"} =>
        /\ \A k \in 1..Len(files) : files[k].handle = "closed"
        /\ roads_file.handle # "open"

NoClosingParen(row) == \A i \in 1..Len(row) : row[i] # ")"

EmptyTagList(row) ==
    /\ ~NoClosingParen(row)
    /\ \A i \in 1..Len(row) : i > LastIndexOf(row, ")") => row[i] \in {" ", "\n"}

\* C6: a row with no closing parenthesis, or with an empty tag list, is skipped:
\* nothing is written to a shard or to the road table, no error is raised, and
\* the sharder goes on reading.
C6_MalformedRowSkipped ==
    [][(/\ shard_pc = "reading"
        /\ Len(fr') = Len(fr) + 1
        /\ (NoClosingParen(fr'[Len(fr')]) \/ EmptyTagList(fr'[Len(fr')])))
       => (/\ shard_pc' = "reading"
           /\ files' = files
           /\ output_files' = output_files
           /\ roads_file' = roads_file)]_vars

\* --------------------------------------------- properties of the compositor
\* the source at 1-based position n is all zero over window win
ZeroOver(n, win) ==
    \A dx \in 0..(win.width - 1), dy \in 0..(win.height - 1) :
        SrcValue(image_paths[n], win.col_off + dx, win.row_off + dy) = 0

C8_FailureAbortsFanOut ==
    rasterize_pc = "returned" => \A i \in 1..csv_files : units[i] = "ok"

\* ------------------------------------------------ properties of the cleaner
\* C9: _clean_geometry repairs with buffer(0) at most once and ends within two
\* activations; a polygon invalid on the first pass is re-cleaned exactly once,
\* with fail_fast set; still invalid, it is rejected; valid, non-empty and of
\* at least the minimum area after the repair, it is accepted.
C9_RepairAtMostOnce ==
    /\ cg_repairs <= 1
    /\ cg_calls <= 2
    /\ (cg_pc = "call" /\ cg_repairs = 1) => cg_fail_fast = TRUE
    /\ (cg_pc = "returned" /\ Contains(cg_input, POLYGON) /\ Shapely(cg_input).parses) =>
          LET first == Shapely(cg_input)
              second == Shapely(first.buffer0)
          IN  IF first.valid
              THEN cg_repairs = 0 /\ cg_calls = 1
              ELSE /\ cg_repairs = 1 /\ cg_calls = 2
                   /\ ~second.valid => cg_result = None
                   /\ (second.valid /\ ~second.empty /\ second.area >= MIN_GEOM_AREA)
                          => (cg_result = second.dumps /\ cg_result # None)

\* C9 witness: calls ended after one repair, one accepting the repaired polygon
\* and (in another state) one rejecting a polygon still invalid
C9_Witness ==
    /\ cg_pc = "returned" /\ cg_repairs = 1 /\ cg_calls = 2
    /\ ~Shapely(cg_input).valid
    /\ Shapely(Shapely(cg_input).buffer0).valid
    /\ cg_result # None

\* ------------------------------------------- row counters and shard rotation
\* shard k is the one its tag's handle currently points to
CurrentShard(k) ==
    /\ files[k].path.tag \in DOMAIN file_handlers
    /\ file_handlers[files[k].path.tag] = k

TagText(row) ==
    LET p == LastIndexOf(row, ")")
        rest == SubSeq(row, p + 1, Len(row))
        unspaced == IF rest # <<>> /\ Head(rest) = " " THEN Tail(rest) ELSE rest
    IN  IF unspaced # <<>> /\ unspaced[Len(unspaced)] = "\n"
        THEN SubSeq(unspaced, 1, Len(unspaced) - 1)
        ELSE unspaced

\* C12: for every line read that holds a closing parenthesis (and a tag list),
\* _parse_row returns as geometry the text up to and including the last ")" and
\* as tags the comma-separated list of everything after it, whether a space or
\* nothing follows the ")" and whether or not a newline ends the line; every tag
\* of the line has its shard.
C12_ParseKeepsEveryTag ==
    \A i \in 1..Len(fr) :
        LET row == fr[i] IN
        (~NoClosingParen(row) /\ ~EmptyTagList(row)) =>
            /\ _parse_row(row).raised = FALSE
            /\ _parse_row(row).wkt = SubSeq(row, 1, LastIndexOf(row, ")"))
            /\ _parse_row(row).attr_tags = Split(TagText(row), ",")
            /\ (i < Len(fr) \/ shard_pc # "raised") =>
                  \A t \in 1..Len(Split(TagText(row), ",")) :
                      \E k \in 1..Len(files) :
                          files[k].path.tag = Split(TagText(row), ",")[t]

\* ------------------------------------------- read windows of the split plans
\* C13: every read window of every split plan lies inside the source raster,
\* every strip's profile width is positive, and the column ranges read by
\* distinct strips are pairwise disjoint.
C13_ReadWindowsInsideSource ==
    plan_pc = "planned" =>
        /\ \A k \in 1..Len(metas) :
              /\ metas[k].profile.width > 0
              /\ \A i \in 1..Len(metas[k].read_windows) :
                    LET win == metas[k].read_windows[i] IN
                    /\ win.col_off >= 0 /\ win.row_off >= 0
                    /\ win.col_off + win.width <= width
                    /\ win.row_off + win.height <= height
        /\ \A k, j \in 1..Len(metas) :
              k < j =>
                  \/ metas[k].x_read_offset + metas[k].profile.width <= metas[j].x_read_offset
                  \/ metas[j].x_read_offset + metas[j].profile.width <= metas[k].x_read_offset

====
